---- MODULE Spec2Model ----
(***************************************************************************)
(* eth-block-tracker: BaseBlockTracker (demand-driven start/stop, cached   *)
(* block number with expiry, monotonic filter, event fan-out) together     *)
(* with the two engines built on it, PollingBlockTracker and               *)
(* SubscribeBlockTracker, and BaseChainResetTracker (reorg detection on    *)
(* a cached block number and hash) with its PollingChainResetTracker.      *)
(*                                                                         *)
(* A synchronous call chain of the program (a listener change that starts  *)
(* or ends the tracker, a provider response that is filtered, cached and   *)
(* emitted) is one action.  The chain is computed on a record `s` holding  *)
(* the tracker's fields, by operators named after the methods they model.  *)
(***************************************************************************)
EXTENDS Integers, Sequences, FiniteSets, TLC

----------------------------------------------------------------------------
(* Bounds of the model *)

\* most listeners registered on the tracker at a time, over all event names,
\* the once('latest') listeners of pending getLatestBlock() calls included
MaxListeners == 2
\* most checkForLatestBlock() calls pending at a time
MaxChecks == 1
\* most _synchronize loops alive at a time
MaxLoops == 2
\* most destroy() calls suspended at a time
MaxDestroys == 1
\* most _start calls, and most _end calls, of a subscription tracker in
\* progress at a time
MaxCalls == 1
\* most _synchronize loops of a reset tracker alive at a time
MaxChainLoops == 1
\* most handlers a subscription tracker attaches to the provider's 'data' event
MaxHandlers == 2
\* the subscription ids the provider hands out: 1..MaxIds
MaxIds == 2

(* Time is not measured: a pending timer fires at any later moment, so     *)
(* every order of timers and provider answers is covered.                  *)

----------------------------------------------------------------------------
(* Values *)

\* A block number is a hex string; it is modelled by the sequence of its
\* hex digits after the "0x" prefix.  The empty sequence stands for null.
NoBlock == << >>

\* "0x9" and "0x10": as strings "0x10" < "0x9", as numbers 9 < 16
Blocks == { <<9>>, <<1, 0>> }

\* the handle of a timer that is not pending (never set, cleared, or fired)
Unarmed == "unarmed"

blockTrackerEvents == { "sync", "latest" }

\* an event without listeners
NoListeners == [on |-> 0, once |-> 0, throws |-> FALSE]

EventNames == { "latest", "sync", "error", "other" }

RECURSIVE hexToInt(_)
hexToInt(hexInt) ==
  IF hexInt = << >> THEN 0
  ELSE hexToInt(SubSeq(hexInt, 1, Len(hexInt) - 1)) * 16 + hexInt[Len(hexInt)]

----------------------------------------------------------------------------
VARIABLES
  isRunning,         \* BaseBlockTracker._isRunning
  currentBlock,      \* BaseBlockTracker._currentBlock
  blockResetTimeout, \* the duration of the pending reset timer, or Unarmed
  listeners,         \* event name -> [on, once]: listeners the consumer registered,
                     \* and throws: the consumer's listeners of that event throw
  waiters,           \* pending getLatestBlock() calls, each a once('latest') listener
  internalEvents,    \* the tracker's own newListener/removeListener hooks are attached
  loops,             \* the live _synchronize loops: how many are at each suspension
  checks,            \* pending checkForLatestBlock() calls (each with a request in flight)
  destroying,        \* destroy() calls suspended at `await this._maybeEnd()`, free to resume
  engine,            \* which tracker class this is, and the SubscribeBlockTracker's state
  effects,           \* what the last operation did: hook calls, emissions, error reports
  hist               \* history: facts the properties refer to

vars == << isRunning, currentBlock, blockResetTimeout, listeners, waiters,
           internalEvents, loops, checks, destroying, engine, effects, hist >>

NoEffects == [ starts |-> 0, ends |-> 0, emits |-> << >>, report |-> "none",
               result |-> NoBlock, handled |-> 0, calls |-> 0, rethrown |-> 0 ]

\* The tracker's fields as one record, with the effects of the running call chain.
Cur ==
  [ run |-> isRunning, cur |-> currentBlock, timer |-> blockResetTimeout,
    ls |-> listeners, waiters |-> waiters, internal |-> internalEvents,
    loops |-> loops, eng |-> engine, fx |-> NoEffects ]

----------------------------------------------------------------------------
(* The event emitter the tracker extends *)

\* EventEmitter.listenerCount(eventName)
listenerCount(s, ev) ==
  s.ls[ev].on + s.ls[ev].once + (IF ev = "latest" THEN s.waiters ELSE 0)

\* _getBlockTrackerEventCount counting the 'latest' listeners only
getBlockTrackerEventCountLatestOnly(s) == listenerCount(s, "latest")

\* BaseBlockTracker._getBlockTrackerEventCount
getBlockTrackerEventCount(s) ==
  listenerCount(s, "sync") + listenerCount(s, "latest")

\* _cancelBlockResetTimeout without the clearTimeout call
cancelBlockResetTimeoutForgotten(s) == s

\* BaseBlockTracker._cancelBlockResetTimeout
cancelBlockResetTimeout(s) == [s EXCEPT !.timer = Unarmed]

\* BaseBlockTracker._setupBlockResetTimeout
setupBlockResetTimeout(s) ==
  [cancelBlockResetTimeout(s) EXCEPT !.timer = "blockResetDuration"]

\* BaseBlockTracker._resetCurrentBlock
resetCurrentBlock(s) == [s EXCEPT !.cur = NoBlock]

\* PollingBlockTracker._fetchLatestBlock: the loop sends eth_blockNumber and
\* suspends until the provider answers
fetchLatestBlock == [pc |-> "fetch", t |-> "none"]

\* PollingBlockTracker: timeout(duration, unref) as a loop's suspension
timeout(duration) == [pc |-> "wait", t |-> duration]

\* where a _synchronize loop can be suspended
LoopStates ==
  {fetchLatestBlock} \cup {timeout("pollingInterval"), timeout("retryTimeout")}

RECURSIVE SumOver(_, _)
SumOver(f, S) ==
  IF S = {} THEN 0
  ELSE LET x == CHOOSE y \in S : TRUE IN f[x] + SumOver(f, S \ {x})

\* the number of live loops
LoopCount(b) == SumOver(b, LoopStates)

\* a loop moves from suspension a to suspension b
MoveLoop(q, a, b) ==
  [l \in LoopStates |->
     q[l] + (IF l = b THEN 1 ELSE 0) - (IF l = a THEN 1 ELSE 0)]

\* PollingBlockTracker._synchronize, from its entry to the first suspension:
\* `while (this._isRunning)` and the request of _updateLatestBlock
synchronize(s) ==
  IF s.run THEN [s EXCEPT !.loops[fetchLatestBlock] = @ + 1] ELSE s

\* SubscribeBlockTracker._subscriptionId = null
NoSubscription == 0

\* the subscription ids the provider answers eth_subscribe with
Ids == 1 .. MaxIds

\* where a SubscribeBlockTracker._start call can be suspended: at
\* `await super._start()`, at the eth_blockNumber request, and at the
\* eth_subscribe request, where it holds latestBlockNumber (NoBlock: undefined)
StartStates ==
  { [pc |-> "super", latest |-> NoBlock],
    [pc |-> "blockNumber", latest |-> NoBlock] }
    \cup { [pc |-> "subscribe", latest |-> b] : b \in Blocks \cup {NoBlock} }

\* where a SubscribeBlockTracker._end call can be suspended: at
\* `await super._end()` and at the eth_unsubscribe request for id; awaited
\* tells that a destroy() call waits for it
EndStates ==
  { [pc |-> "super", id |-> NoSubscription, awaited |-> a] : a \in BOOLEAN }
    \cup { [pc |-> "unsubscribe", id |-> i, awaited |-> a] :
              i \in Ids, a \in BOOLEAN }

\* the engine of a tracker of class kind, as its constructor leaves it
NewEngine(kind) ==
  [ kind |-> kind,
    usePastBlocks |-> FALSE,
    subscriptionId |-> NoSubscription,
    live |-> {},
    handlers |-> 0,
    starts |-> [p \in StartStates |-> 0],
    ends |-> [p \in EndStates |-> 0] ]

\* PollingBlockTracker._start
pollingStart(s) == synchronize(s)

\* SubscribeBlockTracker._start, up to its suspension at `await super._start()`
subscribeStart(s) ==
  [s EXCEPT !.eng.starts[[pc |-> "super", latest |-> NoBlock]] = @ + 1]

\* SubscribeBlockTracker._end, up to its suspension at `await super._end()`
subscribeEnd(s) ==
  [s EXCEPT !.eng.ends[[pc |-> "super", id |-> NoSubscription,
                        awaited |-> FALSE]] = @ + 1]

\* this._start() as _maybeStart calls it: the engine's _start
start(s) ==
  LET s1 == [s EXCEPT !.fx.starts = @ + 1]
  IN  IF s.eng.kind = "subscribe" THEN subscribeStart(s1) ELSE pollingStart(s1)

\* this._end() as _maybeEnd calls it: the engine's _end, for
\* PollingBlockTracker a no-op
end(s) ==
  LET s1 == [s EXCEPT !.fx.ends = @ + 1]
  IN  IF s.eng.kind = "subscribe" THEN subscribeEnd(s1) ELSE s1

\* _maybeStart without the test of _isRunning: every new listener calls _start
maybeStartAlways(s) ==
  start(cancelBlockResetTimeout([s EXCEPT !.run = TRUE]))

\* BaseBlockTracker._maybeStart
maybeStart(s) ==
  IF s.run THEN s
  ELSE start(cancelBlockResetTimeout([s EXCEPT !.run = TRUE]))

\* BaseBlockTracker._maybeEnd, up to and including the call of _end
maybeEnd(s) ==
  IF ~s.run THEN s
  ELSE end(setupBlockResetTimeout([s EXCEPT !.run = FALSE]))

\* _onNewListener without the test of the event name: any new listener starts
\* the tracker
onNewListenerAnyEvent(s, ev) == maybeStart(s)

\* BaseBlockTracker._onNewListener: called before the listener is added
onNewListener(s, ev) ==
  IF ev \in blockTrackerEvents THEN maybeStart(s) ELSE s

\* BaseBlockTracker._onRemoveListener: called after the listener is removed
onRemoveListener(s) ==
  IF getBlockTrackerEventCount(s) = 0 THEN maybeEnd(s) ELSE s

\* EventEmitter.addListener / once: 'newListener' is emitted to the tracker's
\* hook (when attached) before the listener is stored
addListener(s, ev, kind) ==
  LET s1 == IF s.internal THEN onNewListener(s, ev) ELSE s
  IN  [s1 EXCEPT !.ls[ev][kind] = @ + 1]

\* getLatestBlock's `this.once('latest', resolve)`
addWaiter(s) ==
  LET s1 == IF s.internal THEN onNewListener(s, "latest") ELSE s
  IN  [s1 EXCEPT !.waiters = @ + 1]

\* EventEmitter.removeListener: 'removeListener' is emitted to the tracker's
\* hook (when attached) after the listener is dropped
removeListener(s, ev, kind) ==
  LET s1 == [s EXCEPT !.ls[ev][kind] = @ - 1]
  IN  IF s1.internal THEN onRemoveListener(s1) ELSE s1

\* SafeEventEmitter.emit(ev, ...): every listener registered when the emit
\* starts is called; a once-listener is removed (with 'removeListener') just
\* before it is called.  A listener that throws does not end the emit: its
\* error is thrown again from a timer of its own.  The emission is recorded
\* with the block number a listener reading getCurrentBlock() sees.
emit(s, ev, newBlock, oldBlock) ==
  LET rec == [ ev |-> ev, newBlock |-> newBlock, oldBlock |-> oldBlock,
               seen |-> s.cur ]
      gone == s.ls[ev].once + (IF ev = "latest" THEN s.waiters ELSE 0)
      thrown == IF s.ls[ev].throws THEN s.ls[ev].on + s.ls[ev].once ELSE 0
      s1 == [s EXCEPT !.ls[ev].once = 0,
                      !.waiters = IF ev = "latest" THEN 0 ELSE @,
                      !.fx.emits = Append(@, rec),
                      !.fx.calls = @ + listenerCount(s, ev),
                      !.fx.rethrown = @ + thrown,
                      !.fx.result = IF ev = "latest" /\ s.waiters > 0
                                    THEN newBlock ELSE @]
  IN  IF gone > 0 /\ s1.internal THEN onRemoveListener(s1) ELSE s1

\* _setCurrentBlock on a plain EventEmitter: the error of a throwing 'latest'
\* listener leaves the method at its first call, before 'sync' is emitted
setCurrentBlockUnsafe(s, newBlock) ==
  LET oldBlock == s.cur
      s1 == [s EXCEPT !.cur = newBlock]
      s2 == emit(s1, "latest", newBlock, NoBlock)
  IN  IF s.ls["latest"].throws /\ s.ls["latest"].on + s.ls["latest"].once > 0
      THEN [s2 EXCEPT !.fx.calls = s.fx.calls + 1,
                      !.fx.rethrown = s.fx.rethrown]
      ELSE emit(s2, "sync", newBlock, oldBlock)

\* _setCurrentBlock emitting before it stores the new block
setCurrentBlockEmitFirst(s, newBlock) ==
  LET oldBlock == s.cur
      s1 == emit(s, "latest", newBlock, NoBlock)
      s2 == emit(s1, "sync", newBlock, oldBlock)
  IN  [s2 EXCEPT !.cur = newBlock]

\* BaseBlockTracker._setCurrentBlock
setCurrentBlock(s, newBlock) ==
  LET oldBlock == s.cur
      s1 == [s EXCEPT !.cur = newBlock]
      s2 == emit(s1, "latest", newBlock, NoBlock)
  IN  emit(s2, "sync", newBlock, oldBlock)

\* a <= b for hex strings compared as strings, character by character
RECURSIVE StringLeq(_, _)
StringLeq(a, b) ==
  IF a = << >> THEN TRUE
  ELSE IF b = << >> THEN FALSE
  ELSE IF a[1] # b[1] THEN a[1] < b[1]
  ELSE StringLeq(Tail(a), Tail(b))

\* _newPotentialLatest comparing the hex strings themselves: `newBlock <= currentBlock`
newPotentialLatestAsStrings(s, newBlock) ==
  IF s.cur # NoBlock /\ StringLeq(newBlock, s.cur)
  THEN s
  ELSE setCurrentBlock(s, newBlock)

\* _newPotentialLatest without the comparison: every block number is accepted
newPotentialLatestAny(s, newBlock) == setCurrentBlock(s, newBlock)

\* _newPotentialLatest rejecting the lower block numbers only: an equal one is
\* accepted
newPotentialLatestOrEqual(s, newBlock) ==
  IF s.cur # NoBlock /\ hexToInt(newBlock) < hexToInt(s.cur)
  THEN s
  ELSE setCurrentBlock(s, newBlock)

\* BaseBlockTracker._newPotentialLatest
newPotentialLatest(s, newBlock) ==
  IF s.cur # NoBlock /\ hexToInt(newBlock) <= hexToInt(s.cur)
  THEN s
  ELSE setCurrentBlock(s, newBlock)

\* EventEmitter.removeAllListeners as the tracker's destroy() calls it
\* (super.removeAllListeners()): every listener goes, the tracker's own hooks
\* last, so each removal is still reported to _onRemoveListener
superRemoveAllListeners(s) ==
  LET had == getBlockTrackerEventCount(s) > 0
      s1 == [s EXCEPT !.ls = [e \in EventNames |->
                                [@[e] EXCEPT !.on = 0, !.once = 0]],
                      !.waiters = 0]
      s2 == IF s.internal /\ had THEN onRemoveListener(s1) ELSE s1
  IN  [s2 EXCEPT !.internal = FALSE]

\* EventEmitter.removeAllListeners(eventName)
superRemoveAllListenersOf(s, ev) ==
  LET had == listenerCount(s, ev) > 0
      s1 == [s EXCEPT !.ls[ev] = [@ EXCEPT !.on = 0, !.once = 0],
                      !.waiters = IF ev = "latest" THEN 0 ELSE @]
  IN  IF s.internal /\ had THEN onRemoveListener(s1) ELSE s1

\* BaseBlockTracker._setupInternalEvents
setupInternalEvents(s) == [s EXCEPT !.internal = TRUE]

\* BaseBlockTracker.removeAllListeners(eventName?); ev = "all" for no argument
removeAllListeners(s, ev) ==
  LET s1 == IF ev = "all" THEN superRemoveAllListeners(s)
            ELSE superRemoveAllListenersOf(s, ev)
  IN  onRemoveListener(setupInternalEvents(s1))

\* getLatestBlock registering its once('latest') listener before it looks at
\* the cache, and removing it again when a block number is cached
getLatestBlockRegisteringFirst(s) ==
  LET s1 == addWaiter(s)
      s2 == [s1 EXCEPT !.waiters = @ - 1, !.fx.result = s.cur]
  IN  IF s.cur = NoBlock THEN s1
      ELSE IF s2.internal THEN onRemoveListener(s2) ELSE s2

\* BaseBlockTracker.getLatestBlock
getLatestBlock(s) ==
  IF s.cur # NoBlock THEN [s EXCEPT !.fx.result = s.cur] ELSE addWaiter(s)

\* BaseBlockTracker.destroy, up to its suspension at `await this._maybeEnd()`
destroyBegin(s) == maybeEnd(s)

\* BaseBlockTracker.destroy, after the suspension
destroyFinish(s) == superRemoveAllListeners(cancelBlockResetTimeout(s))

\* _updateLatestBlock storing whatever was fetched, without the filter
updateLatestBlockUnfiltered(s, latestBlock) == setCurrentBlock(s, latestBlock)

\* _updateLatestBlock dropping the block number of a tracker that has stopped
updateLatestBlockIfRunning(s, latestBlock) ==
  IF s.run THEN newPotentialLatest(s, latestBlock) ELSE s

\* PollingBlockTracker._updateLatestBlock, after the fetch has resolved
updateLatestBlock(s, latestBlock) == newPotentialLatest(s, latestBlock)

\* the catch block of _synchronize logging every error, listeners or not
reportErrorAlwaysLogged(s) == [s EXCEPT !.fx.report = "logged"]

\* PollingBlockTracker._synchronize: the catch block's report of a failed fetch:
\* emit('error') throws when nothing listens, and the error is then logged
reportError(s) ==
  [s EXCEPT !.fx.report = IF listenerCount(s, "error") > 0 THEN "emitted"
                          ELSE "logged"]


----------------------------------------------------------------------------
(* SubscribeBlockTracker: what its _start and _end calls do after a suspension *)

\* a call moves from suspension a to suspension b
Moved(q, a, b) ==
  [x \in DOMAIN q |->
     q[x] + (IF x = b THEN 1 ELSE 0) - (IF x = a THEN 1 ELSE 0)]

\* a call at suspension a is over
Dropped(q, a) == [q EXCEPT ![a] = @ - 1]

\* the calls in progress
CallCount(q) == SumOver(q, DOMAIN q)

\* SafeEventEmitter.emit('error', err): the listeners are called, and with no
\* listener registered the error is thrown at the caller of emit
emitError(s) ==
  [s EXCEPT !.fx.report = IF listenerCount(s, "error") > 0 THEN "emitted"
                          ELSE "thrown"]

\* SubscribeBlockTracker._start after `await super._start()`: the test of
\* _subscriptionId and the eth_blockNumber request
startResume(s) ==
  LET p == [pc |-> "super", latest |-> NoBlock]
  IN  IF s.eng.subscriptionId = NoSubscription
      THEN [s EXCEPT !.eng.starts =
                       Moved(@, p, [pc |-> "blockNumber", latest |-> NoBlock])]
      ELSE [s EXCEPT !.eng.starts = Dropped(@, p)]

\* SubscribeBlockTracker._start: eth_blockNumber answered with latestBlockNumber;
\* the eth_subscribe request
startBlockNumberResolved(s, latestBlockNumber) ==
  [s EXCEPT !.eng.starts =
              Moved(@, [pc |-> "blockNumber", latest |-> NoBlock],
                       [pc |-> "subscribe", latest |-> latestBlockNumber])]

\* SubscribeBlockTracker._start: eth_blockNumber failed; the catch block emits
\* 'error', and if that does not throw the eth_subscribe request follows
startBlockNumberRejected(s) ==
  LET p == [pc |-> "blockNumber", latest |-> NoBlock]
      s1 == emitError(s)
  IN  IF s1.fx.report = "thrown"
      THEN [s1 EXCEPT !.eng.starts = Dropped(@, p)]
      ELSE [s1 EXCEPT !.eng.starts =
                        Moved(@, p, [pc |-> "subscribe", latest |-> NoBlock])]

\* SubscribeBlockTracker._start: this._provider.on('data', ...) and the
\* _newPotentialLatest call for a defined latestBlockNumber
startAttach(s, latestBlockNumber) ==
  LET s1 == [s EXCEPT !.eng.handlers = @ + 1]
  IN  IF latestBlockNumber # NoBlock
      THEN newPotentialLatest(s1, latestBlockNumber)
      ELSE s1

\* SubscribeBlockTracker._start: eth_subscribe answered with id
startSubscribeResolved(s, p, id) ==
  startAttach([s EXCEPT !.eng.starts = Dropped(@, p),
                        !.eng.subscriptionId = id,
                        !.eng.live = @ \cup {id}],
              p.latest)

\* SubscribeBlockTracker._start: eth_subscribe failed; the catch block emits
\* 'error', and if that does not throw the rest of _start follows
startSubscribeRejected(s, p) ==
  LET s1 == emitError([s EXCEPT !.eng.starts = Dropped(@, p)])
  IN  IF s1.fx.report = "thrown" THEN s1 ELSE startAttach(s1, p.latest)

\* SubscribeBlockTracker._end after `await super._end()`: with a subscription
\* id the eth_unsubscribe request, without one the return
endResume(s, p) ==
  IF s.eng.subscriptionId # NoSubscription
  THEN [s EXCEPT !.eng.ends =
                   Moved(@, p, [pc |-> "unsubscribe",
                                id |-> s.eng.subscriptionId,
                                awaited |-> p.awaited])]
  ELSE [s EXCEPT !.eng.ends = Dropped(@, p)]

\* SubscribeBlockTracker._end: eth_unsubscribe succeeded
endUnsubscribeResolved(s, p) ==
  [s EXCEPT !.eng.ends = Dropped(@, p),
            !.eng.live = @ \ {p.id},
            !.eng.subscriptionId = NoSubscription]

\* SubscribeBlockTracker._end: eth_unsubscribe failed; the catch block emits 'error'
endUnsubscribeRejected(s, p) ==
  emitError([s EXCEPT !.eng.ends = Dropped(@, p)])

\* `response.params?.subscription` of a message without params: undefined,
\* which is not null and not an id
Undefined == -1

\* the params of a message of the provider's 'data' event: absent, or a
\* subscription id with the number of a block header
Params ==
  { [present |-> FALSE, subscription |-> Undefined, number |-> NoBlock] }
    \cup { [present |-> TRUE, subscription |-> i, number |-> v] :
              i \in Ids, v \in Blocks }

\* the messages of the provider's 'data' event
Messages ==
  { [method |-> m, params |-> p] :
      m \in {"eth_subscription", "other"}, p \in Params }

\* _handleSubData that looks at the method of the message only
handleSubDataAnySubscription(s, response) ==
  LET s1 == [s EXCEPT !.fx.handled = @ + 1]
  IN  IF response.method = "eth_subscription" /\ response.params.present
      THEN newPotentialLatest(s1, response.params.number)
      ELSE s1

\* SubscribeBlockTracker._handleSubData
handleSubData(s, response) ==
  LET s1 == [s EXCEPT !.fx.handled = @ + 1]
  IN  IF /\ response.method = "eth_subscription"
         /\ response.params.subscription = s.eng.subscriptionId
      THEN newPotentialLatest(s1, response.params.number)
      ELSE s1

\* the provider emits 'data': every attached handler is called, n of them
RECURSIVE providerData(_, _, _)
providerData(s, n, response) ==
  IF n = 0 THEN s ELSE providerData(handleSubData(s, response), n - 1, response)

\* checkForLatestBlock waiting for 'latest' behind the tracker's back: nothing
\* tells the tracker that somebody waits
subscribeCheckForLatestBlockUnnoticed(s) ==
  IF s.cur # NoBlock THEN [s EXCEPT !.fx.result = s.cur]
  ELSE [s EXCEPT !.waiters = @ + 1]

\* SubscribeBlockTracker.checkForLatestBlock
subscribeCheckForLatestBlock(s) == getLatestBlock(s)

\* destroy() removing the listeners first and ending the tracker afterwards
subscribeDestroyBeginRemovingFirst(s) ==
  LET s1 == superRemoveAllListeners(s)
  IN  IF s.run
      THEN [s1 EXCEPT !.eng.ends =
              Moved(@, [pc |-> "super", id |-> NoSubscription, awaited |-> FALSE],
                       [pc |-> "super", id |-> NoSubscription, awaited |-> TRUE])]
      ELSE s1

\* BaseBlockTracker.destroy of a subscription tracker, up to its suspension:
\* the _end call that _maybeEnd makes is the one destroy() waits for
subscribeDestroyBegin(s) ==
  LET s1 == maybeEnd(s)
  IN  IF s.run
      THEN [s1 EXCEPT !.eng.ends =
              Moved(@, [pc |-> "super", id |-> NoSubscription, awaited |-> FALSE],
                       [pc |-> "super", id |-> NoSubscription, awaited |-> TRUE])]
      ELSE s1

----------------------------------------------------------------------------
(* State machine *)

Max(a, b) == IF a >= b THEN a ELSE b

\* _synchronize giving up after a failure: the loop returns after its retry wait
loopTopGivesUp(s, d) ==
  IF s.run /\ d # "retryTimeout"
  THEN [s EXCEPT !.loops = MoveLoop(@, timeout(d), fetchLatestBlock)]
  ELSE [s EXCEPT !.loops[timeout(d)] = @ - 1]

\* _synchronize looping `while (true)`: the next request whatever _isRunning is
loopTopAlways(s, d) ==
  [s EXCEPT !.loops = MoveLoop(@, timeout(d), fetchLatestBlock)]

\* PollingBlockTracker._synchronize, a loop at `while (this._isRunning)` after
\* its wait: the next request, or the end of the loop
loopTop(s, d) ==
  IF s.run THEN [s EXCEPT !.loops = MoveLoop(@, timeout(d), fetchLatestBlock)]
  ELSE [s EXCEPT !.loops[timeout(d)] = @ - 1]

\* every listener registered on the tracker
totalListeners(s) ==
  listenerCount(s, "latest") + listenerCount(s, "sync")
    + listenerCount(s, "error") + listenerCount(s, "other")

WithinBounds(s) ==
  /\ totalListeners(s) <= MaxListeners
  /\ LoopCount(s.loops) <= MaxLoops
  /\ CallCount(s.eng.starts) <= MaxCalls
  /\ CallCount(s.eng.ends) <= MaxCalls
  /\ s.eng.handlers <= MaxHandlers

\* the history after a call chain that ended in s; sub is the value it submitted
\* to the filter (NoBlock if none), cleared tells that the cache was emptied
NextHist(s, sub, cleared) ==
  [ hist EXCEPT
      !.maxEver = IF s.cur = NoBlock THEN @ ELSE Max(@, hexToInt(s.cur)),
      !.subMax = IF cleared THEN -1
                 ELSE IF sub = NoBlock THEN @ ELSE Max(@, hexToInt(sub)),
      !.fired = IF s.fx.ends > 0 \/ s.fx.starts > 0 THEN 0 ELSE @ ]

\* store the outcome s of a call chain, with the history h (t is the outcome,
\* computed once)
Store(s, h) ==
  \E t \in {s} :
    /\ WithinBounds(t)
    /\ isRunning' = t.run
    /\ currentBlock' = t.cur
    /\ blockResetTimeout' = t.timer
    /\ listeners' = t.ls
    /\ waiters' = t.waiters
    /\ internalEvents' = t.internal
    /\ loops' = t.loops
    /\ engine' = t.eng
    /\ effects' = t.fx
    /\ hist' = h

\* store the outcome s of a call chain that submitted sub to the filter
Apply(s, sub) == \E t \in {s} : Store(t, NextHist(t, sub, FALSE))

Init ==
  /\ isRunning = FALSE
  /\ currentBlock = NoBlock
  /\ blockResetTimeout = Unarmed
  /\ listeners = [e \in EventNames |-> NoListeners]
  /\ waiters = 0
  /\ internalEvents = TRUE
  /\ loops = [l \in LoopStates |-> 0]
  /\ checks = 0
  /\ destroying = 0
  /\ engine = NewEngine("polling")
  /\ effects = NoEffects
  /\ hist = [ destroyCalled |-> FALSE, maxEver |-> -1, subMax |-> -1,
              fired |-> 0 ]

\* tracker.on(ev, fn) / addListener (kind "on"), tracker.once(ev, fn) (kind "once")
On(ev, kind) ==
  /\ Apply(addListener(Cur, ev, kind), NoBlock)
  /\ UNCHANGED << checks, destroying >>

\* tracker.off(ev, fn) / removeListener for a registered listener
Off(ev, kind) ==
  /\ listeners[ev][kind] > 0
  /\ Apply(removeListener(Cur, ev, kind), NoBlock)
  /\ UNCHANGED << checks, destroying >>

\* tracker.removeAllListeners(ev) and tracker.removeAllListeners()
RemoveAllListeners(ev) ==
  /\ Apply(removeAllListeners(Cur, ev),
           NoBlock)
  /\ UNCHANGED << checks, destroying >>

\* tracker.getLatestBlock()
GetLatestBlock ==
  /\ Apply(getLatestBlock(Cur), NoBlock)
  /\ UNCHANGED << checks, destroying >>

\* tracker.checkForLatestBlock(): _updateLatestBlock sends its own request
CheckForLatestBlock ==
  /\ checks < MaxChecks
  /\ checks' = checks + 1
  /\ Apply(Cur, NoBlock)
  /\ UNCHANGED destroying

\* the provider answers a checkForLatestBlock request with a block number:
\* the rest of _updateLatestBlock, then `return await this.getLatestBlock()`
CheckResolve(v) ==
  /\ checks > 0
  /\ checks' = checks - 1
  /\ Apply(getLatestBlock(updateLatestBlock(Cur, v)), v)
  /\ UNCHANGED destroying

\* the provider fails a checkForLatestBlock request: the call rejects
CheckReject ==
  /\ checks > 0
  /\ checks' = checks - 1
  /\ Apply([Cur EXCEPT !.fx.report = "rejected"], NoBlock)
  /\ UNCHANGED destroying

\* tracker.destroy() is called and suspends
DestroyBegin ==
  /\ destroying < MaxDestroys
  /\ destroying' = destroying + 1
  /\ LET s == destroyBegin(Cur)
     IN  Store(s,
               [NextHist(s, NoBlock, FALSE) EXCEPT !.destroyCalled = TRUE])
  /\ UNCHANGED checks

\* a suspended destroy() resumes and returns
DestroyFinish ==
  /\ destroying > 0
  /\ destroying' = destroying - 1
  /\ Apply(destroyFinish(Cur), NoBlock)
  /\ UNCHANGED checks

\* PollingBlockTracker._synchronize: the provider answers a loop's request
\* with a block number; the loop filters it and waits the polling interval
LoopResolve(v) ==
  /\ loops[fetchLatestBlock] > 0
  /\ LET s == updateLatestBlock(Cur, v)
     IN  Apply([s EXCEPT !.loops = MoveLoop(@, fetchLatestBlock,
                                            timeout("pollingInterval"))], v)
  /\ UNCHANGED << checks, destroying >>

\* PollingBlockTracker._synchronize: a loop's request fails; the loop reports
\* the error and waits the retry timeout
LoopReject ==
  /\ loops[fetchLatestBlock] > 0
  /\ LET s == reportError(Cur)
     IN  Apply([s EXCEPT !.loops = MoveLoop(@, fetchLatestBlock,
                                            timeout("retryTimeout"))], NoBlock)
  /\ UNCHANGED << checks, destroying >>

\* PollingBlockTracker._synchronize: a loop's wait is over; the loop tests
\* `while (this._isRunning)` and either sends the next request or returns
LoopWake(d) ==
  /\ destroying = 0
  /\ loops[timeout(d)] > 0
  /\ Apply(loopTop(Cur, d), NoBlock)
  /\ UNCHANGED << checks, destroying >>

\* no async function is waiting for a mere turn of the microtask queue
\* (timers run after those)
MicrotasksIdle ==
  /\ destroying = 0
  /\ engine.starts[[pc |-> "super", latest |-> NoBlock]] = 0
  /\ \A a \in BOOLEAN :
       engine.ends[[pc |-> "super", id |-> NoSubscription, awaited |-> a]] = 0

\* the reset timer fires: _resetCurrentBlock
ResetFire ==
  /\ MicrotasksIdle
  /\ blockResetTimeout # Unarmed
  /\ LET s == resetCurrentBlock([Cur EXCEPT !.timer = Unarmed])
     IN  Store(s,
               [NextHist(s, NoBlock, TRUE) EXCEPT !.fired = IF @ < 2 THEN @ + 1 ELSE @])
  /\ UNCHANGED << checks, destroying >>

\* how the consumer registers a listener: once() is exercised on the tracker's
\* own two events
Kinds(ev) == IF ev \in blockTrackerEvents THEN {"on", "once"} ELSE {"on"}

Next ==
  \/ \E ev \in EventNames : \E kind \in Kinds(ev) : On(ev, kind)
  \/ \E ev \in EventNames : \E kind \in Kinds(ev) : Off(ev, kind)
  \/ \E ev \in EventNames \cup {"all"} : RemoveAllListeners(ev)
  \/ GetLatestBlock
  \/ CheckForLatestBlock
  \/ \E v \in Blocks : CheckResolve(v)
  \/ CheckReject
  \/ DestroyBegin
  \/ DestroyFinish
  \/ \E v \in Blocks : LoopResolve(v)
  \/ LoopReject
  \/ \E d \in {"pollingInterval", "retryTimeout"} : LoopWake(d)
  \/ ResetFire

Spec == Init /\ [][Next]_vars

\* A polling tracker whose consumer registers listeners that throw, on
\* 'latest', on 'sync', or on both
InitThrow ==
  /\ isRunning = FALSE
  /\ currentBlock = NoBlock
  /\ blockResetTimeout = Unarmed
  /\ \E T \in (SUBSET blockTrackerEvents) \ {{}} :
       listeners = [e \in EventNames |-> [NoListeners EXCEPT !.throws = e \in T]]
  /\ waiters = 0
  /\ internalEvents = TRUE
  /\ loops = [l \in LoopStates |-> 0]
  /\ checks = 0
  /\ destroying = 0
  /\ engine = NewEngine("polling")
  /\ effects = NoEffects
  /\ hist = [ destroyCalled |-> FALSE, maxEver |-> -1, subMax |-> -1,
              fired |-> 0 ]

SpecThrow == InitThrow /\ [][Next]_vars

\* A polling tracker constructed with { provider, usePastBlocks: true }: the
\* constructor reads provider, pollingInterval, retryTimeout,
\* keepEventLoopActive, setSkipCacheFlag and blockResetDuration, and nothing
\* else of its options
InitPast ==
  /\ isRunning = FALSE
  /\ currentBlock = NoBlock
  /\ blockResetTimeout = Unarmed
  /\ listeners = [e \in EventNames |-> NoListeners]
  /\ waiters = 0
  /\ internalEvents = TRUE
  /\ loops = [l \in LoopStates |-> 0]
  /\ checks = 0
  /\ destroying = 0
  /\ engine = [NewEngine("polling") EXCEPT !.usePastBlocks = TRUE]
  /\ effects = NoEffects
  /\ hist = [ destroyCalled |-> FALSE, maxEver |-> -1, subMax |-> -1,
              fired |-> 0 ]

SpecPast == InitPast /\ [][Next]_vars

----------------------------------------------------------------------------
(* State machine of a SubscribeBlockTracker *)

InitSub ==
  /\ isRunning = FALSE
  /\ currentBlock = NoBlock
  /\ blockResetTimeout = Unarmed
  /\ listeners = [e \in EventNames |-> NoListeners]
  /\ waiters = 0
  /\ internalEvents = TRUE
  /\ loops = [l \in LoopStates |-> 0]
  /\ checks = 0
  /\ destroying = 0
  /\ engine = NewEngine("subscribe")
  /\ effects = NoEffects
  /\ hist = [ destroyCalled |-> FALSE, maxEver |-> -1, subMax |-> -1,
              fired |-> 0 ]

\* the _end calls in progress that a destroy() call waits for
awaitedEnds ==
  SumOver(engine.ends, {p \in EndStates : p.awaited})

\* how many destroy() calls an _end call that is over at s lets go on: the one
\* that waited for it, unless the _end call threw
released(s, p) == IF p.awaited /\ s.fx.report # "thrown" THEN 1 ELSE 0

\* tracker.checkForLatestBlock() on a subscription tracker
SubCheckForLatestBlock ==
  /\ Apply(subscribeCheckForLatestBlock(Cur), NoBlock)
  /\ UNCHANGED << checks, destroying >>

\* a _start call goes on after `await super._start()`
StartResume ==
  /\ engine.starts[[pc |-> "super", latest |-> NoBlock]] > 0
  /\ Apply(startResume(Cur), NoBlock)
  /\ UNCHANGED << checks, destroying >>

\* the provider answers the eth_blockNumber request of a _start call
StartBlockNumberResolve(v) ==
  /\ engine.starts[[pc |-> "blockNumber", latest |-> NoBlock]] > 0
  /\ Apply(startBlockNumberResolved(Cur, v), NoBlock)
  /\ UNCHANGED << checks, destroying >>

\* the eth_blockNumber request of a _start call fails
StartBlockNumberReject ==
  /\ engine.starts[[pc |-> "blockNumber", latest |-> NoBlock]] > 0
  /\ Apply(startBlockNumberRejected(Cur), NoBlock)
  /\ UNCHANGED << checks, destroying >>

\* the provider answers the eth_subscribe request of a _start call with an id
\* that names no other subscription
StartSubscribeResolve(p, id) ==
  /\ p.pc = "subscribe" /\ engine.starts[p] > 0
  /\ id \notin engine.live \cup {engine.subscriptionId}
  /\ \A q \in EndStates : engine.ends[q] > 0 => q.id # id
  /\ Apply(startSubscribeResolved(Cur, p, id), p.latest)
  /\ UNCHANGED << checks, destroying >>

\* the eth_subscribe request of a _start call fails
StartSubscribeReject(p) ==
  /\ p.pc = "subscribe" /\ engine.starts[p] > 0
  /\ LET s == startSubscribeRejected(Cur, p)
     IN  Apply(s, IF s.fx.report = "thrown" THEN NoBlock ELSE p.latest)
  /\ UNCHANGED << checks, destroying >>

\* an _end call goes on after `await super._end()`
EndResume(p) ==
  /\ p.pc = "super" /\ engine.ends[p] > 0
  /\ LET s == endResume(Cur, p)
     IN  /\ Apply(s, NoBlock)
         /\ destroying' = destroying
               + (IF engine.subscriptionId = NoSubscription
                  THEN released(s, p) ELSE 0)
  /\ UNCHANGED checks

\* the provider answers the eth_unsubscribe request of an _end call
EndUnsubscribeResolve(p) ==
  /\ p.pc = "unsubscribe" /\ engine.ends[p] > 0
  /\ LET s == endUnsubscribeResolved(Cur, p)
     IN  /\ Apply(s, NoBlock)
         /\ destroying' = destroying + released(s, p)
  /\ UNCHANGED checks

\* the eth_unsubscribe request of an _end call fails
EndUnsubscribeReject(p) ==
  /\ p.pc = "unsubscribe" /\ engine.ends[p] > 0
  /\ LET s == endUnsubscribeRejected(Cur, p)
     IN  /\ Apply(s, NoBlock)
         /\ destroying' = destroying + released(s, p)
  /\ UNCHANGED checks

\* the provider emits a message on 'data', to which the tracker has attached
\* a handler
ProviderData(response) ==
  /\ engine.handlers > 0
  /\ Apply(providerData(Cur, engine.handlers, response),
           IF /\ response.method = "eth_subscription"
              /\ response.params.subscription = engine.subscriptionId
           THEN response.params.number ELSE NoBlock)
  /\ UNCHANGED << checks, destroying >>

\* tracker.destroy() is called on a subscription tracker and suspends
SubDestroyBegin ==
  /\ destroying + awaitedEnds < MaxDestroys
  /\ destroying' = destroying + (IF isRunning THEN 0 ELSE 1)
  /\ LET s == subscribeDestroyBegin(Cur)
     IN  Store(s,
               [NextHist(s, NoBlock, FALSE) EXCEPT !.destroyCalled = TRUE])
  /\ UNCHANGED checks

NextSub ==
  \/ \E ev \in EventNames : \E kind \in Kinds(ev) : On(ev, kind)
  \/ \E ev \in EventNames : \E kind \in Kinds(ev) : Off(ev, kind)
  \/ \E ev \in EventNames \cup {"all"} : RemoveAllListeners(ev)
  \/ GetLatestBlock
  \/ SubCheckForLatestBlock
  \/ StartResume
  \/ \E v \in Blocks : StartBlockNumberResolve(v)
  \/ StartBlockNumberReject
  \/ \E p \in StartStates : \E id \in Ids : StartSubscribeResolve(p, id)
  \/ \E p \in StartStates : StartSubscribeReject(p)
  \/ \E p \in EndStates : EndResume(p)
  \/ \E p \in EndStates : EndUnsubscribeResolve(p)
  \/ \E p \in EndStates : EndUnsubscribeReject(p)
  \/ \E response \in Messages : ProviderData(response)
  \/ SubDestroyBegin
  \/ DestroyFinish
  \/ ResetFire

SpecSub == InitSub /\ [][NextSub]_vars

\* A subscription tracker whose provider never fails an eth_subscribe request
NextSubscribing ==
  \/ \E ev \in EventNames : \E kind \in Kinds(ev) : On(ev, kind)
  \/ \E ev \in EventNames : \E kind \in Kinds(ev) : Off(ev, kind)
  \/ \E ev \in EventNames \cup {"all"} : RemoveAllListeners(ev)
  \/ GetLatestBlock
  \/ SubCheckForLatestBlock
  \/ StartResume
  \/ \E v \in Blocks : StartBlockNumberResolve(v)
  \/ StartBlockNumberReject
  \/ \E p \in StartStates : \E id \in Ids : StartSubscribeResolve(p, id)
  \/ \E p \in EndStates : EndResume(p)
  \/ \E p \in EndStates : EndUnsubscribeResolve(p)
  \/ \E p \in EndStates : EndUnsubscribeReject(p)
  \/ \E response \in Messages : ProviderData(response)
  \/ SubDestroyBegin
  \/ DestroyFinish
  \/ ResetFire

SpecSubscribing == InitSub /\ [][NextSubscribing]_vars

----------------------------------------------------------------------------
(* BaseChainResetTracker: the cached block (number and hash) and 'reset' *)

\* a block hash that is null
NoHash == "null"

\* "0x9", "0x10" and "0x11"
ResetNumbers == { <<9>>, <<1, 0>>, <<1, 1>> }

Hashes == { "0xaaa", "0xbbb" }

\* the blocks handed to _useNewBlock: number and hash, each possibly null
Candidates ==
  [ number : ResetNumbers \cup {NoBlock}, hash : Hashes \cup {NoHash} ]

\* BaseChainResetTracker._resetCurrentBlock, and the constructor's first value
EmptyBlock == [number |-> NoBlock, hash |-> NoHash]

chainResetTrackerEvents == { "reset" }

\* the events a consumer of a reset tracker listens to
ChainEventNames == { "reset", "latest", "other" }

\* a cached block with a number and a hash
Complete(b) == b.number # NoBlock /\ b.hash # NoHash

\* where a _synchronize loop of a PollingChainResetTracker can be suspended:
\* in timeout(...), or in the request of _checkCurrentBlock for the block
\* that was cached when the request was sent
ChainWait == [pc |-> "wait", block |-> EmptyBlock]

ChainFetch(b) == [pc |-> "fetch", block |-> b]

ChainLoopStates ==
  {ChainWait} \cup { ChainFetch(b) : b \in { c \in Candidates : Complete(c) } }

\* PollingChainResetTracker._checkCurrentBlock up to its suspension, as the
\* loop calls it: with an incomplete cache it returns and the loop waits
checkCurrentBlock(s) ==
  IF Complete(s.cur) THEN ChainFetch(s.cur) ELSE ChainWait

\* PollingChainResetTracker._synchronize, from its entry to the first
\* suspension
chainSynchronize(s) ==
  IF s.run THEN [s EXCEPT !.loops[checkCurrentBlock(s)] = @ + 1] ELSE s

\* this._start() as _maybeStart calls it: abstract in BaseChainResetTracker,
\* `this._synchronize()` in PollingChainResetTracker
chainStart(s) ==
  LET s1 == [s EXCEPT !.fx.starts = @ + 1]
  IN  IF s.eng.kind = "pollingReset" THEN chainSynchronize(s1) ELSE s1

\* BaseChainResetTracker._getTrackerEventCount
getTrackerEventCount(s) == s.ls["reset"].on + s.ls["reset"].once

\* BaseChainResetTracker._maybeStart, up to and including the call of _start
chainMaybeStart(s) ==
  IF s.run THEN s ELSE chainStart([s EXCEPT !.run = TRUE])

\* BaseChainResetTracker._maybeEnd, up to and including the call of _end
chainMaybeEnd(s) ==
  IF ~s.run THEN s ELSE [s EXCEPT !.run = FALSE, !.fx.ends = @ + 1]

\* _onNewListener starting the tracker for a listener of any event
chainOnNewListenerAnyEvent(s, ev) == chainMaybeStart(s)

\* BaseChainResetTracker._onNewListener
chainOnNewListener(s, ev) ==
  IF ev \in chainResetTrackerEvents THEN chainMaybeStart(s) ELSE s

\* BaseChainResetTracker._onRemoveListener
chainOnRemoveListener(s) ==
  IF getTrackerEventCount(s) > 0 THEN s ELSE chainMaybeEnd(s)

\* BaseChainResetTracker._emitReset: the 'reset' listeners are called with
\* the cached block and the new one; the once() listeners are removed, which
\* runs the removeListener hook
emitReset(s, newBlock) ==
  LET s1 == [s EXCEPT !.fx.emits =
                        Append(@, [ev |-> "reset", oldBlock |-> s.cur,
                                   newBlock |-> newBlock]),
                      !.fx.calls = @ + s.ls["reset"].on + s.ls["reset"].once]
      s2 == [s1 EXCEPT !.ls["reset"].once = 0]
  IN  IF s.ls["reset"].once > 0 /\ s.internal THEN chainOnRemoveListener(s2)
      ELSE s2

\* BaseChainResetTracker._setCurrentBlock
chainSetCurrentBlock(s, newBlock) == [s EXCEPT !.cur = newBlock]

\* BaseChainResetTracker._resetCurrentBlock
chainResetCurrentBlock(s) == [s EXCEPT !.cur = EmptyBlock]

\* _useNewBlock keeping the cached block when the new block has no hash
useNewBlockKeepingCache(s, newBlock) ==
  LET cached == s.cur
  IN  IF newBlock.number = NoBlock THEN s
      ELSE IF cached.number = NoBlock \/ cached.hash = NoHash
      THEN chainSetCurrentBlock(s, newBlock)
      ELSE IF newBlock.hash = NoHash
      THEN emitReset(s, newBlock)
      ELSE LET s1 == IF hexToInt(newBlock.number) < hexToInt(cached.number)
                     THEN emitReset(s, newBlock) ELSE s
               s2 == IF /\ hexToInt(newBlock.number) = hexToInt(cached.number)
                        /\ newBlock.hash # cached.hash
                     THEN emitReset(s1, newBlock) ELSE s1
           IN  chainSetCurrentBlock(s2, newBlock)

\* _useNewBlock comparing the numbers only: no 'reset' for another hash at
\* the same number
useNewBlockByNumberOnly(s, newBlock) ==
  LET cached == s.cur
  IN  IF newBlock.number = NoBlock THEN s
      ELSE IF cached.number = NoBlock \/ cached.hash = NoHash
      THEN chainSetCurrentBlock(s, newBlock)
      ELSE IF newBlock.hash = NoHash
      THEN chainResetCurrentBlock(emitReset(s, newBlock))
      ELSE LET s1 == IF hexToInt(newBlock.number) < hexToInt(cached.number)
                     THEN emitReset(s, newBlock) ELSE s
           IN  chainSetCurrentBlock(s1, newBlock)

\* BaseChainResetTracker._useNewBlock
useNewBlock(s, newBlock) ==
  LET cached == s.cur
  IN  IF newBlock.number = NoBlock THEN s
      ELSE IF cached.number = NoBlock \/ cached.hash = NoHash
      THEN chainSetCurrentBlock(s, newBlock)
      ELSE IF newBlock.hash = NoHash
      THEN chainResetCurrentBlock(emitReset(s, newBlock))
      ELSE LET s1 == IF hexToInt(newBlock.number) < hexToInt(cached.number)
                     THEN emitReset(s, newBlock) ELSE s
               s2 == IF /\ hexToInt(newBlock.number) = hexToInt(cached.number)
                        /\ newBlock.hash # cached.hash
                     THEN emitReset(s1, newBlock) ELSE s1
           IN  chainSetCurrentBlock(s2, newBlock)

\* A new reset tracker: nothing cached, no listener
InitReset ==
  /\ isRunning = FALSE
  /\ currentBlock = EmptyBlock
  /\ blockResetTimeout = Unarmed
  /\ listeners = [e \in ChainEventNames |-> NoListeners]
  /\ waiters = 0
  /\ internalEvents = TRUE
  /\ loops = [l \in LoopStates |-> 0]
  /\ checks = 0
  /\ destroying = 0
  /\ engine = NewEngine("reset")
  /\ effects = NoEffects
  /\ hist = [ destroyCalled |-> FALSE, maxEver |-> -1, subMax |-> -1,
              fired |-> 0 ]

\* the reset tracker's fields as one record
ChainCur ==
  [ run |-> isRunning, cur |-> currentBlock, ls |-> listeners,
    internal |-> internalEvents, loops |-> loops, calls |-> checks,
    eng |-> engine, fx |-> NoEffects ]

\* the listeners the consumer registered on a reset tracker
chainTotalListeners(s) ==
  SumOver([e \in ChainEventNames |-> s.ls[e].on + s.ls[e].once], ChainEventNames)

\* store the outcome s of a call chain of the reset tracker
ChainStore(s) ==
  \E t \in {s} :
    /\ chainTotalListeners(t) <= MaxListeners
    /\ CallCount(t.loops) <= MaxChainLoops
    /\ isRunning' = t.run
    /\ currentBlock' = t.cur
    /\ listeners' = t.ls
    /\ internalEvents' = t.internal
    /\ loops' = t.loops
    /\ checks' = t.calls
    /\ engine' = t.eng
    /\ effects' = t.fx
    /\ UNCHANGED << blockResetTimeout, waiters >>

\* EventEmitter.on / once on a reset tracker: 'newListener' is emitted before
\* the listener is added
chainAddListener(s, ev, kind) ==
  LET s1 == IF s.internal THEN chainOnNewListener(s, ev) ELSE s
  IN  [s1 EXCEPT !.ls[ev][kind] = @ + 1]

\* EventEmitter.removeListener on a reset tracker: 'removeListener' is emitted
\* after the listener is removed
chainRemoveListener(s, ev, kind) ==
  LET s1 == [s EXCEPT !.ls[ev][kind] = @ - 1]
  IN  IF s.internal THEN chainOnRemoveListener(s1) ELSE s1

\* tracker.on(ev, fn) on a reset tracker
ChainOn(ev) ==
  /\ ChainStore(chainAddListener(ChainCur, ev, "on"))
  /\ UNCHANGED << destroying, hist >>

\* tracker.off(ev, fn) on a reset tracker, for a registered listener
ChainOff(ev) ==
  /\ listeners[ev].on > 0
  /\ ChainStore(chainRemoveListener(ChainCur, ev, "on"))
  /\ UNCHANGED << destroying, hist >>

\* the subclass hands a block to _useNewBlock
UseNewBlock(newBlock) ==
  /\ ChainStore(useNewBlock(ChainCur, newBlock))
  /\ UNCHANGED << destroying, hist >>

NextReset ==
  \/ \E ev \in ChainEventNames : ChainOn(ev)
  \/ \E ev \in ChainEventNames : ChainOff(ev)
  \/ \E newBlock \in Candidates : UseNewBlock(newBlock)

SpecReset == InitReset /\ [][NextReset]_vars

----------------------------------------------------------------------------
(* PollingChainResetTracker: checkNewBlock and the loop that re-checks the *)
(* cached block                                                            *)

\* where a checkNewBlock(new) call can be suspended: in the request of its
\* _checkCurrentBlock for the block cached when the request was sent, or in
\* its own request for the hash of new
CallCheck(b, new) == [pc |-> "check", block |-> b, new |-> new]

CallFetch(new) == [pc |-> "fetch", block |-> EmptyBlock, new |-> new]

ChainCallStates ==
  { CallFetch(n) : n \in ResetNumbers }
    \cup { CallCheck(b, n) : b \in { c \in Candidates : Complete(c) },
                             n \in ResetNumbers }

\* what _fetchBlockHash returns: res.result?.hash || null
FetchedHashes == Hashes \cup {NoHash}

\* PollingChainResetTracker.checkNewBlock up to its first suspension
checkNewBlock(s, new) ==
  LET at == IF Complete(s.cur) THEN CallCheck(s.cur, new) ELSE CallFetch(new)
  IN  [s EXCEPT !.calls[at] = @ + 1]

\* PollingChainResetTracker._checkCurrentBlock after its request: the block
\* read before the request, with the fetched hash, goes to _useNewBlock
checkCurrentBlockResolved(s, block, hash) ==
  useNewBlock(s, [block EXCEPT !.hash = hash])

\* PollingChainResetTracker._synchronize after a wait: `while (this._isRunning)`
chainLoopTop(s) ==
  IF s.run THEN [s EXCEPT !.loops = Moved(@, ChainWait, checkCurrentBlock(s))]
  ELSE [s EXCEPT !.loops = Dropped(@, ChainWait)]

\* PollingChainResetTracker._synchronize, the catch block: emit('error') in
\* a try of its own, then the retry timeout
chainReportError(s) == [s EXCEPT !.fx.report = "error"]

\* BaseChainResetTracker.destroy up to its suspension at `await this._maybeEnd()`
chainDestroyBegin(s) == chainMaybeEnd(s)

\* BaseChainResetTracker.destroy after the suspension: super.removeAllListeners()
\* removes the consumer's listeners and the tracker's own hooks
chainDestroyFinish(s) ==
  [s EXCEPT !.ls = [e \in ChainEventNames |-> [@[e] EXCEPT !.on = 0, !.once = 0]],
            !.internal = FALSE]

\* BaseChainResetTracker.removeAllListeners(eventName), "all" for no argument
chainRemoveAllListeners(s, ev) ==
  LET s1 == [s EXCEPT !.ls = [e \in ChainEventNames |->
                                IF ev \in {e, "all"}
                                THEN [@[e] EXCEPT !.on = 0, !.once = 0]
                                ELSE @[e]]]
      s2 == IF s.internal THEN chainOnRemoveListener(s1) ELSE s1
  IN  chainOnRemoveListener([s2 EXCEPT !.internal = TRUE])

\* A new PollingChainResetTracker
InitChain ==
  /\ isRunning = FALSE
  /\ currentBlock = EmptyBlock
  /\ blockResetTimeout = Unarmed
  /\ listeners = [e \in ChainEventNames |-> NoListeners]
  /\ waiters = 0
  /\ internalEvents = TRUE
  /\ loops = [l \in ChainLoopStates |-> 0]
  /\ checks = [c \in ChainCallStates |-> 0]
  /\ destroying = 0
  /\ engine = [kind |-> "pollingReset"]
  /\ effects = NoEffects
  /\ hist = [ destroyCalled |-> FALSE, lastCalled |-> -1 ]

\* tracker.once('reset', fn)
ChainOnce ==
  /\ ChainStore(chainAddListener(ChainCur, "reset", "once"))
  /\ UNCHANGED << destroying, hist >>

\* tracker.off('reset', fn) for a listener registered with once()
ChainOffOnce ==
  /\ listeners["reset"].once > 0
  /\ ChainStore(chainRemoveListener(ChainCur, "reset", "once"))
  /\ UNCHANGED << destroying, hist >>

\* tracker.removeAllListeners(ev) and tracker.removeAllListeners()
ChainRemoveAllListeners(ev) ==
  /\ ChainStore(chainRemoveAllListeners(ChainCur, ev))
  /\ UNCHANGED << destroying, hist >>

\* tracker.destroy() is called and suspends
ChainDestroyBegin ==
  /\ destroying < MaxDestroys
  /\ destroying' = destroying + 1
  /\ ChainStore(chainDestroyBegin(ChainCur))
  /\ hist' = [hist EXCEPT !.destroyCalled = TRUE]

\* a suspended destroy() resumes and returns
ChainDestroyFinish ==
  /\ destroying > 0
  /\ destroying' = destroying - 1
  /\ ChainStore(chainDestroyFinish(ChainCur))
  /\ UNCHANGED hist

\* tracker.checkNewBlock(new)
CheckNewBlock(new) ==
  /\ CallCount(checks) < MaxChecks
  /\ ChainStore(checkNewBlock(ChainCur, new))
  /\ UNCHANGED << destroying, hist >>

\* the provider answers the request of a call's _checkCurrentBlock: the
\* answer goes to _useNewBlock and the call requests the hash of its block
CallCheckResolve(c, hash) ==
  /\ c.pc = "check" /\ checks[c] > 0
  /\ LET s == checkCurrentBlockResolved(ChainCur, c.block, hash)
     IN  ChainStore([s EXCEPT !.calls = Moved(@, c, CallFetch(c.new))])
  /\ UNCHANGED << destroying, hist >>

\* the provider answers a call's request for the hash of its block
CallFetchResolve(c, hash) ==
  /\ c.pc = "fetch" /\ checks[c] > 0
  /\ LET s == useNewBlock(ChainCur, [number |-> c.new, hash |-> hash])
     IN  ChainStore([s EXCEPT !.calls = Dropped(@, c)])
  /\ UNCHANGED << destroying, hist >>

\* the provider fails a request of a checkNewBlock call: the call rejects
CallReject(c) ==
  /\ checks[c] > 0
  /\ ChainStore([ChainCur EXCEPT !.calls = Dropped(@, c),
                                 !.fx.report = "rejected"])
  /\ UNCHANGED << destroying, hist >>

\* a loop's wait is over
ChainLoopWake ==
  /\ destroying = 0
  /\ loops[ChainWait] > 0
  /\ ChainStore(chainLoopTop(ChainCur))
  /\ UNCHANGED << destroying, hist >>

\* the provider answers the request of a loop's _checkCurrentBlock; the loop
\* waits the polling interval
ChainLoopResolve(l, hash) ==
  /\ l.pc = "fetch" /\ loops[l] > 0
  /\ LET s == checkCurrentBlockResolved(ChainCur, l.block, hash)
     IN  ChainStore([s EXCEPT !.loops = Moved(@, l, ChainWait)])
  /\ UNCHANGED << destroying, hist >>

\* the provider fails the request of a loop's _checkCurrentBlock; the loop
\* reports the error and waits the retry timeout
ChainLoopReject(l) ==
  /\ l.pc = "fetch" /\ loops[l] > 0
  /\ LET s == chainReportError(ChainCur)
     IN  ChainStore([s EXCEPT !.loops = Moved(@, l, ChainWait)])
  /\ UNCHANGED << destroying, hist >>

NextChain ==
  \/ \E ev \in ChainEventNames : ChainOn(ev)
  \/ \E ev \in ChainEventNames : ChainOff(ev)
  \/ ChainOnce
  \/ ChainOffOnce
  \/ \E ev \in ChainEventNames \cup {"all"} : ChainRemoveAllListeners(ev)
  \/ ChainDestroyBegin
  \/ ChainDestroyFinish
  \/ \E new \in ResetNumbers : CheckNewBlock(new)
  \/ \E c \in ChainCallStates : \E hash \in FetchedHashes : CallCheckResolve(c, hash)
  \/ \E c \in ChainCallStates : \E hash \in FetchedHashes : CallFetchResolve(c, hash)
  \/ \E c \in ChainCallStates : CallReject(c)
  \/ ChainLoopWake
  \/ \E l \in ChainLoopStates : \E hash \in FetchedHashes : ChainLoopResolve(l, hash)
  \/ \E l \in ChainLoopStates : ChainLoopReject(l)

SpecChain == InitChain /\ [][NextChain]_vars

\* A provider on whose chain no block is ever replaced: it reports the same
\* hash for a block number every time
StableHash ==
  [ n \in ResetNumbers |-> IF n = <<1, 0>> THEN "0xbbb" ELSE "0xaaa" ]

\* tracker.checkNewBlock(new) with a block number above those of all
\* earlier calls
CheckNextBlock(new) ==
  /\ hexToInt(new) > hist.lastCalled
  /\ CallCount(checks) < MaxChecks
  /\ ChainStore(checkNewBlock(ChainCur, new))
  /\ hist' = [hist EXCEPT !.lastCalled = hexToInt(new)]
  /\ UNCHANGED destroying

\* A PollingChainResetTracker over that provider, with checkNewBlock called
\* for increasing block numbers
NextStable ==
  \/ \E ev \in ChainEventNames : ChainOn(ev)
  \/ \E ev \in ChainEventNames : ChainOff(ev)
  \/ ChainOnce
  \/ ChainOffOnce
  \/ \E ev \in ChainEventNames \cup {"all"} : ChainRemoveAllListeners(ev)
  \/ ChainDestroyBegin
  \/ ChainDestroyFinish
  \/ \E new \in ResetNumbers : CheckNextBlock(new)
  \/ \E c \in { x \in ChainCallStates : x.pc = "check" } :
        CallCheckResolve(c, StableHash[c.block.number])
  \/ \E c \in ChainCallStates : CallFetchResolve(c, StableHash[c.new])
  \/ \E c \in ChainCallStates : CallReject(c)
  \/ ChainLoopWake
  \/ \E l \in { x \in ChainLoopStates : x.pc = "fetch" } :
        ChainLoopResolve(l, StableHash[l.block.number])
  \/ \E l \in ChainLoopStates : ChainLoopReject(l)

SpecStable == InitChain /\ [][NextStable]_vars


\* The event loop runs every timer that is due and resumes every suspended
\* async function: a loop's wait ends, a suspended destroy() goes on.
Fairness ==
  /\ WF_vars(DestroyFinish)
  /\ \A d \in {"pollingInterval", "retryTimeout"} : WF_vars(LoopWake(d))

SpecFair == Spec /\ Fairness

----------------------------------------------------------------------------
(* Vocabulary of the properties *)

\* a block number as the integer it denotes (base 16, most significant digit first)
RECURSIVE NumberOf(_)
NumberOf(b) ==
  IF Len(b) = 0 THEN 0 ELSE 16 * NumberOf(SubSeq(b, 1, Len(b) - 1)) + b[Len(b)]

\* the 'latest' and 'sync' listeners registered now, those of pending
\* getLatestBlock() calls included
TrackedCount ==
  listeners["latest"].on + listeners["latest"].once + waiters
    + listeners["sync"].on + listeners["sync"].once

\* no destroy() call is suspended
Quiescent == destroying = 0

\* the 'latest' emissions of the last operation
LatestEmits(fx) == SelectSeq(fx.emits, LAMBDA r : r.ev = "latest")

\* steps of the consumer and of the provider
AddTrackedStep == \E ev \in blockTrackerEvents : \E kind \in Kinds(ev) : On(ev, kind)

RemoveStep ==
  \/ \E ev \in blockTrackerEvents : \E kind \in Kinds(ev) : Off(ev, kind)
  \/ \E ev \in EventNames \cup {"all"} : RemoveAllListeners(ev)
  \/ \E v \in Blocks : LoopResolve(v) \/ CheckResolve(v)

SubmitStep(v) == LoopResolve(v) \/ CheckResolve(v)

----------------------------------------------------------------------------
(* C1 *)

----------------------------------------------------------------------------
(* C2 *)

\* C2: between two clearings of the cache the cached value is the numerically
\* largest block number submitted; a submitted value emits 'latest' once, with
\* that value, if it is numerically greater than every value submitted since
\* the cache was last empty, and otherwise changes and emits nothing.
C2_CacheIsMaxAndLatestPerIncrease ==
  [][ /\ currentBlock' # NoBlock => NumberOf(currentBlock') = hist'.subMax
      /\ \A v \in Blocks :
           SubmitStep(v) =>
             IF NumberOf(v) > hist.subMax
             THEN /\ Len(LatestEmits(effects')) = 1
                  /\ LatestEmits(effects')[1].newBlock = v
                  /\ currentBlock' = v
             ELSE /\ effects'.emits = << >>
                  /\ currentBlock' = currentBlock ]_vars

\* "0x10" was accepted over a cached "0x9", which is greater as a string
C2_Witness ==
  /\ currentBlock = <<1, 0>>
  /\ Len(effects.emits) = 2 /\ effects.emits[2].oldBlock = <<9>>

----------------------------------------------------------------------------
(* C3 *)

\* C3 as stated: every non-null value of currentBlock is numerically greater
\* than or equal to every non-null value it had earlier, over stop, cache
\* expiry and restart too.
C3_NeverBelowAnyEarlierValue ==
  currentBlock # NoBlock => NumberOf(currentBlock) >= hist.maxEver

\* C3, amended: for as long as currentBlock stays non-null it never decreases;
\* every non-null value is numerically greater than or equal to every value it
\* had since the cache was last cleared by the expiry timer.
C3_NeverDecreasesWhileSet ==
  [][ (currentBlock # NoBlock /\ currentBlock' # NoBlock)
        => NumberOf(currentBlock') >= NumberOf(currentBlock) ]_vars

\* after an expiry the cache was set again, and then rose from "0x9" to "0x10"
C3_Witness ==
  /\ hist.fired = 1 /\ ~isRunning
  /\ currentBlock = <<1, 0>> /\ effects.emits # << >>
  /\ effects.emits[2].oldBlock = <<9>>

----------------------------------------------------------------------------
(* C4 *)

\* C4: an operation that accepts a value stores it in currentBlock, then emits
\* 'latest' with it, then 'sync' with {oldBlock: the value cached before,
\* newBlock: it}; the listeners of both emissions read the new value from
\* getCurrentBlock(). Nothing else is emitted, and nothing without acceptance.
C4_StoreThenLatestThenSync ==
  [][ /\ effects'.emits # << >> =>
           /\ Len(effects'.emits) = 2
           /\ effects'.emits[1] = [ ev |-> "latest", newBlock |-> currentBlock',
                                    oldBlock |-> NoBlock, seen |-> currentBlock' ]
           /\ effects'.emits[2] = [ ev |-> "sync", newBlock |-> currentBlock',
                                    oldBlock |-> currentBlock, seen |-> currentBlock' ]
      /\ (currentBlock' # currentBlock /\ currentBlock' # NoBlock)
           => effects'.emits # << >> ]_vars

\* a value was accepted over a cached one
C4_Witness ==
  /\ Len(effects.emits) = 2
  /\ effects.emits[2].oldBlock = <<9>> /\ effects.emits[2].newBlock = <<1, 0>>
  /\ effects.emits[1].seen = <<1, 0>>

----------------------------------------------------------------------------
(* C5 *)

----------------------------------------------------------------------------
(* C6 *)

----------------------------------------------------------------------------
(* C7 *)

\* C7: once the expiry timer armed by the last stop has fired and the tracker
\* has not been started again, getCurrentBlock() returns null (a block number
\* stored by a later checkForLatestBlock() call apart).
C7_NullAfterExpiry ==
  [][ (hist.fired >= 1 /\ effects'.starts = 0 /\ ~isRunning'
         /\ ~(\E v \in Blocks : CheckResolve(v)))
        => currentBlock' = NoBlock ]_vars

----------------------------------------------------------------------------
(* C8 *)

\* C8: the expiry timer is armed only while the tracker is not running, it
\* fires at most once after a stop, and the cache is never cleared while the
\* tracker is running.
C8_TimerOnlyWhileIdle ==
  /\ [](blockResetTimeout # Unarmed => ~isRunning)
  /\ [](hist.fired <= 1)
  /\ [][ isRunning => (currentBlock # NoBlock => currentBlock' # NoBlock) ]_vars

\* the tracker was started again while its cache was set, so while the timer
\* of the earlier stop was pending
C8_Witness ==
  /\ isRunning /\ effects.starts = 1 /\ currentBlock # NoBlock
  /\ ~hist.destroyCalled /\ checks = 0 /\ hist.fired = 0

----------------------------------------------------------------------------
(* C9 *)

\* C9: at most one poll loop is alive per polling tracker.
C9_OnePollLoop == LoopCount(loops) <= 1

----------------------------------------------------------------------------
(* C10 *)

\* C10: at most one eth_blockNumber request is outstanding.
C10_OneRequestOutstanding == loops[fetchLatestBlock] + checks <= 1

----------------------------------------------------------------------------
(* C11 *)

\* C11: the getLatestBlock()/checkForLatestBlock() calls that are pending
\* together while no value is cached share one eth_blockNumber request: at
\* most one request is outstanding for them.
C11_OneRequestForConcurrentCalls ==
  (currentBlock = NoBlock /\ waiters + checks >= 2)
    => loops[fetchLatestBlock] + checks <= 1

----------------------------------------------------------------------------
(* C12 *)

\* C12: getLatestBlock() called on a tracker that is not running leaves it
\* not running.
C12_GetLatestBlockDoesNotStart ==
  [][ (GetLatestBlock /\ ~isRunning) => ~isRunning' ]_vars

----------------------------------------------------------------------------
(* C14 *)

\* C14: when the fetch that pending getLatestBlock() calls wait for fails, the
\* calls are settled (rejected): none of them stays pending.
C14_PendingCallRejects ==
  [][ (LoopReject /\ waiters > 0) => waiters' = 0 ]_vars

----------------------------------------------------------------------------
(* C16 *)

\* C16 as stated: every failed fetch of a polling tracker, the one of a
\* checkForLatestBlock() call too, is reported once: emitted as 'error' if an
\* 'error' listener is registered, logged otherwise.
C16_EveryFailedFetchReported ==
  [][ (LoopReject \/ CheckReject) =>
        effects'.report = IF listeners["error"].on > 0 THEN "emitted"
                          ELSE "logged" ]_vars

\* C16, amended: every failed fetch of the poll loop is reported once: emitted
\* as 'error' if an 'error' listener is registered and logged otherwise; the
\* loop is not left, it goes on to its retry wait.
C16_LoopFailureReportedOnce ==
  [][ LoopReject =>
        /\ effects'.report = IF listeners["error"].on > 0 THEN "emitted"
                             ELSE "logged"
        /\ LoopCount(loops') = LoopCount(loops)
        /\ loops'[timeout("retryTimeout")] = loops[timeout("retryTimeout")] + 1
     ]_vars

\* a failed fetch was emitted to the 'error' listener while a getLatestBlock()
\* call was waiting
C16_Witness ==
  /\ effects.report = "emitted" /\ listeners["error"].on = 1 /\ waiters = 1

----------------------------------------------------------------------------
(* C17 *)

\* C17: while the tracker is stopped and stays stopped, its loops send no
\* request: a fetch in flight completes, and the loop then ends at its next
\* test of _isRunning, after a success as after a failure.
C17_NoRequestAfterStop ==
  [][ /\ (~isRunning /\ ~isRunning')
        => loops'[fetchLatestBlock] <= loops[fetchLatestBlock]
      /\ \A d \in {"pollingInterval", "retryTimeout"} :
           (LoopWake(d) /\ ~isRunning) =>
             /\ LoopCount(loops') = LoopCount(loops) - 1
             /\ loops'[fetchLatestBlock] = loops[fetchLatestBlock] ]_vars

\* the fetch that was in flight when the tracker stopped has failed, and the
\* loop is in its retry wait
C17_Witness ==
  /\ ~isRunning /\ ~hist.destroyCalled
  /\ effects.report \in {"emitted", "logged"}
  /\ loops[timeout("retryTimeout")] = 1 /\ loops[fetchLatestBlock] = 0

----------------------------------------------------------------------------
(* C18 *)

\* C18: stopping the tracker leaves a fetch in flight, and the block number it
\* brings while the tracker is stopped is filtered as usual: stored in
\* currentBlock if none is cached or it is numerically greater than the cached
\* one, and dropped otherwise; the tracker stays stopped.
C18_LateFetchStillApplied ==
  [][ /\ \A v \in Blocks :
           (LoopResolve(v) /\ ~isRunning) =>
             /\ ~isRunning'
             /\ currentBlock' =
                  IF currentBlock = NoBlock
                       \/ NumberOf(v) > NumberOf(currentBlock)
                  THEN v ELSE currentBlock
      /\ (isRunning /\ ~isRunning' /\ ~(\E v \in Blocks : LoopResolve(v)))
           => loops' = loops ]_vars

\* a block number arrived from the poll loop while the tracker was stopped and
\* was stored
C18_Witness ==
  /\ ~isRunning /\ effects.ends = 0 /\ effects.emits # << >>
  /\ effects.result = NoBlock /\ currentBlock # NoBlock
  /\ loops[timeout("pollingInterval")] = 1

----------------------------------------------------------------------------
(* C19 *)

\* C19: when destroy() resolves the tracker is not running, no 'latest' or
\* 'sync' listener is registered and no expiry timer is armed.
C19_DestroyedIsQuiet ==
  [][ DestroyFinish =>
        /\ ~isRunning'
        /\ TrackedCount' = 0
        /\ blockResetTimeout' = Unarmed ]_vars

----------------------------------------------------------------------------
(* C15 *)

\* C15 as stated: a failed fetch does not end the loop, and while the tracker
\* is running a request is eventually sent again; every block number v that a
\* running tracker's loop fetches is emitted as 'latest'.
C15_AnyFetchedValueDelivered ==
  /\ [][ LoopReject => LoopCount(loops') = LoopCount(loops) ]_vars
  /\ (isRunning /\ loops[fetchLatestBlock] = 0)
       ~> (~isRunning \/ loops[fetchLatestBlock] > 0)
  /\ [][ \A v \in Blocks :
           (LoopResolve(v) /\ isRunning)
             => /\ Len(LatestEmits(effects')) = 1
                /\ LatestEmits(effects')[1].newBlock = v ]_vars

\* C15, amended: a failed fetch changes nothing of the tracker but the loop's position,
\* which becomes the retry wait; while the tracker is running and no request
\* is outstanding, a request is eventually sent, unless the tracker is stopped
\* first; and a block number fetched by a running tracker's loop that passes
\* the filter is emitted as 'latest'.
C15_LoopSurvivesFailures ==
  /\ [][ LoopReject =>
           /\ LoopCount(loops') = LoopCount(loops)
           /\ loops'[timeout("retryTimeout")] = loops[timeout("retryTimeout")] + 1
           /\ UNCHANGED << isRunning, currentBlock, blockResetTimeout, listeners,
                           waiters, internalEvents, checks, destroying >> ]_vars
  /\ (isRunning /\ loops[fetchLatestBlock] = 0)
       ~> (~isRunning \/ loops[fetchLatestBlock] > 0)
  /\ [][ \A v \in Blocks :
           (LoopResolve(v) /\ isRunning
              /\ (currentBlock = NoBlock \/ NumberOf(v) > NumberOf(currentBlock)))
             => /\ Len(LatestEmits(effects')) = 1
                /\ LatestEmits(effects')[1].newBlock = v ]_vars

\* a running tracker's fetch has failed: its only loop is in the retry wait
C15_Witness ==
  /\ isRunning /\ effects.report \in {"emitted", "logged"}
  /\ LoopCount(loops) = 1 /\ loops[timeout("retryTimeout")] = 1

----------------------------------------------------------------------------
(* C13 *)

----------------------------------------------------------------------------
(* C20 *)

\* C20: destroy() removes no listener before the _end call it waits for is
\* over, and the 'error' of a failing eth_unsubscribe of that _end call is
\* emitted to the registered 'error' listeners.
C20_EndHookRunsBeforeRemoval ==
  [][ /\ SubDestroyBegin =>
           /\ listeners' = listeners /\ waiters' = waiters
           /\ internalEvents' = internalEvents
      /\ \A p \in EndStates :
           (EndUnsubscribeReject(p) /\ p.awaited /\ listeners["error"].on > 0)
             => /\ effects'.report = "emitted"
                /\ listeners' = listeners
                /\ destroying' = destroying + 1 ]_vars

\* the eth_unsubscribe request of a destroy() call has failed and was emitted
\* to the 'error' listener; destroy() is about to go on
C20_Witness ==
  /\ engine.kind = "subscribe" /\ hist.destroyCalled
  /\ effects.report = "emitted" /\ destroying = 1
  /\ listeners["error"].on = 1 /\ engine.subscriptionId # NoSubscription

----------------------------------------------------------------------------
(* C21 *)

\* C21: destroy() leaves the once('latest') listener of a pending
\* getLatestBlock() call in place, and the block number of the fetch that
\* completes next fulfils every pending call with that block number.
C21_PendingCallOutlivesDestroy ==
  [][ /\ (DestroyBegin \/ DestroyFinish) => waiters' = waiters
      /\ \A v \in Blocks :
           (LoopResolve(v) /\ waiters > 0)
             => (waiters' = 0 /\ effects'.result = v) ]_vars

----------------------------------------------------------------------------
(* C22 *)

----------------------------------------------------------------------------
(* C23 *)

\* C23 as stated: when a checkForLatestBlock() call on a polling tracker
\* without 'latest'/'sync' listeners is fulfilled, the tracker is not running
\* and no expiry timer is pending, so that nothing clears the cached value.
C23_CheckedValueNeverExpires ==
  [][ \A v \in Blocks :
        (CheckResolve(v) /\ TrackedCount = 0)
          => /\ ~isRunning'
             /\ currentBlock' # NoBlock
             /\ blockResetTimeout' = Unarmed ]_vars

\* C23, amended: such a call leaves the tracker stopped and without listeners
\* and leaves the expiry timer as it was: it arms none, but a timer that an
\* earlier stop of the tracker armed is still pending.
C23_CheckArmsNoTimer ==
  [][ \A v \in Blocks :
        (CheckResolve(v) /\ TrackedCount = 0)
          => /\ ~isRunning /\ ~isRunning'
             /\ TrackedCount' = 0
             /\ currentBlock' # NoBlock
             /\ blockResetTimeout' = blockResetTimeout ]_vars

\* a checkForLatestBlock() call on a tracker that never ran has cached "0x9",
\* and no timer is pending
C23_Witness ==
  /\ ~isRunning /\ TrackedCount = 0 /\ LoopCount(loops) = 0 /\ checks = 0
  /\ Len(effects.emits) = 2 /\ effects.result = <<9>>
  /\ currentBlock = <<9>> /\ blockResetTimeout = Unarmed

----------------------------------------------------------------------------
(* C24 *)

\* the _start call that holds no block number and waits for eth_subscribe
AtSubscribeWithoutBlock == [pc |-> "subscribe", latest |-> NoBlock]

\* C24: when the eth_blockNumber request of a start fails, the error
\* is reported and the eth_subscribe request is sent, with or without an
\* 'error' listener; whatever the answer to eth_subscribe, the handler is
\* then attached to the provider.
C24_StartGoesOnAfterFailedFetch ==
  [][ /\ StartBlockNumberReject =>
           /\ effects'.report \in {"emitted", "thrown"}
           /\ engine'.starts[AtSubscribeWithoutBlock]
                = engine.starts[AtSubscribeWithoutBlock] + 1
      /\ ( \/ \E id \in Ids : StartSubscribeResolve(AtSubscribeWithoutBlock, id)
           \/ StartSubscribeReject(AtSubscribeWithoutBlock) )
           => engine'.handlers = engine.handlers + 1 ]_vars

----------------------------------------------------------------------------
(* C25 *)

\* C25: when the eth_blockNumber request or the eth_subscribe request of a
\* start fails, the failure is reported as 'error', that step emits neither
\* 'latest' nor 'sync', and no pending getLatestBlock() call is fulfilled.
C25_FailedStartEmitsNoBlock ==
  [][ (StartBlockNumberReject \/ \E p \in StartStates : StartSubscribeReject(p))
        => /\ effects'.report \in {"emitted", "thrown"}
           /\ effects'.emits = << >>
           /\ effects'.result = NoBlock
           /\ waiters' = waiters ]_vars

----------------------------------------------------------------------------
(* C26 *)

\* C26: when the eth_unsubscribe request of an _end call is answered or fails,
\* the tracker holds no subscription id afterwards and the _end call does not
\* throw; an _end call that finds no subscription id sends no eth_unsubscribe.
C26_EndClearsSubscription ==
  [][ /\ \A p \in EndStates :
           (EndUnsubscribeResolve(p) \/ EndUnsubscribeReject(p))
             => /\ engine'.subscriptionId = NoSubscription
                /\ effects'.report # "thrown"
      /\ \A p \in EndStates :
           (EndResume(p) /\ engine.subscriptionId = NoSubscription)
             => CallCount(engine'.ends) = CallCount(engine.ends) - 1 ]_vars

----------------------------------------------------------------------------
(* C27 *)

\* the message is an eth_subscription notification for the subscription id
\* the tracker holds, which an eth_subscribe request of its own returned
ForOwnSubscription(response) ==
  /\ response.method = "eth_subscription"
  /\ response.params.present
  /\ engine.subscriptionId \in Ids
  /\ response.params.subscription = engine.subscriptionId

\* what C27 says of a step that hands the message to the tracker
HandledAsStated(response) ==
  /\ effects'.report = "none"
  /\ ~ForOwnSubscription(response) =>
       /\ effects'.emits = << >>
       /\ UNCHANGED << isRunning, currentBlock, blockResetTimeout,
                       listeners, waiters, internalEvents, engine >>
  /\ (/\ ForOwnSubscription(response)
      /\ (currentBlock = NoBlock
            \/ NumberOf(response.params.number) > NumberOf(currentBlock)))
       => /\ currentBlock' = response.params.number
          /\ Len(effects'.emits) = 2

\* C27: in every state of a subscription tracker, a message of the provider
\* that is not an eth_subscription notification for the tracker's own
\* subscription id changes neither the cached block number nor anything else
\* of the tracker, and emits and reports nothing; a notification for the own
\* id with a higher block number is cached and emitted.  (The formula reads
\* ProviderData(response) => HandledAsStated(response), for every response.)
C27_OnlyOwnSubscriptionCounts ==
  [][ \A response \in Messages :
        \/ effects'.handled = 0
        \/ HandledAsStated(response)
        \/ ~ProviderData(response) ]_vars

\* a tracker with a subscription and an empty cache was handed a message
\* that it ignored
C27_Witness ==
  /\ engine.kind = "subscribe" /\ engine.subscriptionId # NoSubscription
  /\ engine.handlers = 1 /\ effects.handled = 1
  /\ currentBlock = NoBlock /\ effects.emits = << >>

----------------------------------------------------------------------------
(* C28 *)

\* the calls of throwing listeners that emitting 'latest' and 'sync' makes now
ThrowingCalls ==
  (IF listeners["latest"].throws
     THEN listeners["latest"].on + listeners["latest"].once ELSE 0)
    + (IF listeners["sync"].throws
         THEN listeners["sync"].on + listeners["sync"].once ELSE 0)

\* C28: when a block number v that passes the filter is delivered to
\* listeners that throw, the listeners see v cached, every 'latest' listener
\* and every 'sync' listener is called, each error is thrown again later from
\* outside the emit call and is not reported as a failed fetch, and the poll
\* loop that fetched v stays alive and waits the polling interval, so that it
\* delivers later block numbers the same way.
C28_ThrowingListenerIsIsolated ==
  [][ \A v \in Blocks :
        (/\ SubmitStep(v)
         /\ currentBlock = NoBlock \/ NumberOf(v) > NumberOf(currentBlock))
          => /\ currentBlock' = v
             /\ Len(effects'.emits) = 2
             /\ effects'.emits[1].ev = "latest" /\ effects'.emits[1].seen = v
             /\ effects'.emits[2].ev = "sync" /\ effects'.emits[2].seen = v
             /\ effects'.calls = TrackedCount
             /\ effects'.rethrown = ThrowingCalls
             /\ effects'.report = "none"
             /\ LoopResolve(v) =>
                  /\ LoopCount(loops') = LoopCount(loops)
                  /\ loops'[timeout("pollingInterval")]
                       = loops[timeout("pollingInterval")] + 1 ]_vars

\* a throwing 'latest' listener and a 'sync' listener were both called with
\* "0x10" after "0x9", and one error waits to be thrown again
C28_Witness ==
  /\ listeners["latest"].throws /\ listeners["latest"].on = 1
  /\ listeners["sync"].on = 1 /\ ~listeners["sync"].throws
  /\ isRunning /\ currentBlock = <<1, 0>>
  /\ Len(effects.emits) = 2 /\ effects.emits[2].oldBlock = <<9>>
  /\ effects.calls = 2 /\ effects.rethrown = 1
  /\ loops[timeout("pollingInterval")] = 1

----------------------------------------------------------------------------
(* C29 *)

\* the cached block has a number and a hash
CompleteCache == currentBlock.number # NoBlock /\ currentBlock.hash # NoHash

\* the candidate invalidates the cached block: it has no hash, or a lower
\* number, or the same number with another hash
Reorg(newBlock) ==
  \/ newBlock.hash = NoHash
  \/ NumberOf(newBlock.number) < NumberOf(currentBlock.number)
  \/ /\ NumberOf(newBlock.number) = NumberOf(currentBlock.number)
     /\ newBlock.hash # currentBlock.hash

\* C29: a candidate with a number handed to a tracker with a complete cache
\* emits exactly one 'reset', with the block cached before and the candidate,
\* if it has no hash, a lower number, or the same number and another hash;
\* every other candidate, and every candidate handed to a tracker whose cache
\* is empty or incomplete, emits nothing.
C29_ResetExactlyOnReorg ==
  [][ \A newBlock \in Candidates :
        UseNewBlock(newBlock) =>
          IF CompleteCache /\ newBlock.number # NoBlock /\ Reorg(newBlock)
          THEN effects'.emits = << [ ev |-> "reset", oldBlock |-> currentBlock,
                                     newBlock |-> newBlock ] >>
          ELSE effects'.emits = << >> ]_vars

\* 'reset' was emitted for another hash at the cached number "0x10"
C29_Witness ==
  /\ engine.kind = "reset" /\ Len(effects.emits) = 1
  /\ effects.emits[1].oldBlock = [number |-> <<1, 0>>, hash |-> "0xaaa"]
  /\ effects.emits[1].newBlock = [number |-> <<1, 0>>, hash |-> "0xbbb"]
  /\ currentBlock = [number |-> <<1, 0>>, hash |-> "0xbbb"]

----------------------------------------------------------------------------
(* C30 *)

\* C30: after a candidate was processed, the cache is unchanged if the
\* candidate has no number, empty if the cache was complete and the candidate
\* has no hash, and the candidate in every other case.
C30_CacheAfterCandidate ==
  [][ \A newBlock \in Candidates :
        UseNewBlock(newBlock) =>
          currentBlock' =
            IF newBlock.number = NoBlock THEN currentBlock
            ELSE IF CompleteCache /\ newBlock.hash = NoHash THEN EmptyBlock
            ELSE newBlock ]_vars

\* a candidate without hash has emptied a complete cache
C30_Witness ==
  /\ engine.kind = "reset" /\ Len(effects.emits) = 1
  /\ effects.emits[1].oldBlock.hash # NoHash
  /\ effects.emits[1].newBlock.hash = NoHash
  /\ currentBlock = EmptyBlock

----------------------------------------------------------------------------
(* C31 *)

\* the 'reset' listeners registered on a reset tracker
ResetListeners == listeners["reset"].on + listeners["reset"].once

----------------------------------------------------------------------------
(* C32 *)

\* 'latest' with v and then 'sync' with v over old, and nothing else
LatestAndSync(fx, v, old) ==
  /\ Len(fx.emits) = 2
  /\ fx.emits[1].ev = "latest" /\ fx.emits[1].newBlock = v
  /\ fx.emits[2].ev = "sync" /\ fx.emits[2].newBlock = v
  /\ fx.emits[2].oldBlock = old

\* C32: with usePastBlocks a fetched block number that is numerically lower
\* than the cached one replaces it and is emitted as 'latest' and as 'sync',
\* and checkForLatestBlock() resolves to the fetched number.
C32_PastBlocksAcceptLower ==
  [][ \A v \in Blocks :
        ( /\ engine.usePastBlocks
          /\ currentBlock # NoBlock
          /\ NumberOf(v) < NumberOf(currentBlock)
          /\ LoopResolve(v) \/ CheckResolve(v) )
          => /\ currentBlock' = v
             /\ LatestAndSync(effects', v, currentBlock)
             /\ CheckResolve(v) => effects'.result = v ]_vars

----------------------------------------------------------------------------
(* C33 *)

\* C33: with usePastBlocks a fetched block number that is numerically equal
\* to the cached one emits nothing and leaves the cache as it is.
C33_PastBlocksIgnoreEqual ==
  [][ \A v \in Blocks :
        ( /\ engine.usePastBlocks
          /\ currentBlock # NoBlock
          /\ NumberOf(v) = NumberOf(currentBlock)
          /\ LoopResolve(v) \/ CheckResolve(v) )
          => /\ effects'.emits = << >>
             /\ currentBlock' = currentBlock ]_vars

\* with usePastBlocks, a checkForLatestBlock() call has resolved to "0x9"
\* without an emission, "0x9" being the only number fetched since the cache
\* was empty
C33_Witness ==
  /\ engine.usePastBlocks
  /\ currentBlock = <<9>> /\ hist.subMax = 9 /\ hist.maxEver = 9
  /\ checks = 0 /\ waiters = 0
  /\ effects.result = <<9>> /\ effects.emits = << >>
  /\ LoopCount(loops) = 0 /\ ~isRunning

----------------------------------------------------------------------------
(* C34 *)

\* the events that are not the tracker's own
OtherEvents == EventNames \ blockTrackerEvents

\* a listener of ev is added, removed, or removed with removeAllListeners(ev)
ListenerStep(ev) ==
  On(ev, "on") \/ Off(ev, "on") \/ RemoveAllListeners(ev)

\* C34: adding or removing a listener of an event other than 'latest' and
\* 'sync' leaves isRunning() and currentBlock as they are and sends no
\* request: no loop is started, ended or moved, and the reset timer is not
\* touched.
C34_OtherEventsChangeNothing ==
  [][ \A ev \in OtherEvents :
        ListenerStep(ev)
          => /\ isRunning' = isRunning
             /\ currentBlock' = currentBlock
             /\ loops' = loops /\ checks' = checks
             /\ blockResetTimeout' = blockResetTimeout
             /\ effects'.starts = 0 /\ effects'.ends = 0 ]_vars

\* an 'error' listener and a 'somethingElse' listener are registered on a
\* tracker that is not running and has fetched nothing
C34_Witness ==
  /\ listeners["error"].on > 0 /\ listeners["other"].on > 0
  /\ ~isRunning /\ currentBlock = NoBlock
  /\ LoopCount(loops) = 0 /\ checks = 0

----------------------------------------------------------------------------
(* C35 *)

\* C35: whenever the tracker is not running and a block number is cached, the
\* reset timer is armed.
C35_IdleCacheHasTimer ==
  (engine.kind = "polling" /\ ~isRunning /\ currentBlock # NoBlock)
    => blockResetTimeout # Unarmed

----------------------------------------------------------------------------
(* C36 *)

\* no _start call and no _end call of the subscription tracker is in progress
HooksIdle == CallCount(engine.starts) = 0 /\ CallCount(engine.ends) = 0

\* C36: whenever a subscription tracker is not running and none of its _start
\* and _end calls is in progress, no subscription it created is still active
\* at the provider.
C36_StoppedHoldsNoSubscription ==
  (engine.kind = "subscribe" /\ ~isRunning /\ HooksIdle) => engine.live = {}

----------------------------------------------------------------------------
(* C37 *)

\* C37: whenever a subscription tracker is running, none of its _start and
\* _end calls is in progress and no eth_subscribe request has failed, its
\* _subscriptionId names a subscription that is active at the provider.
C37_RunningHoldsSubscription ==
  (engine.kind = "subscribe" /\ isRunning /\ HooksIdle)
    => (engine.subscriptionId # NoSubscription
          /\ engine.subscriptionId \in engine.live)

----------------------------------------------------------------------------
(* C38 *)

\* C38: a subscription tracker has at most one handler attached to the
\* provider's 'data' event, and none when it is stopped with no _start or
\* _end call in progress.
C38_AtMostOneDataHandler ==
  engine.kind = "subscribe"
    => /\ engine.handlers <= 1
       /\ (~isRunning /\ HooksIdle) => engine.handlers = 0

----------------------------------------------------------------------------
(* C39 *)

\* C39: over a provider that reports the same hash for a block number every
\* time, with checkNewBlock called for increasing block numbers, no step of
\* the reset tracker emits 'reset' and none lowers the cached number.
C39_NoResetWithoutReorg ==
  [][ /\ effects'.emits = << >>
      /\ (currentBlock.number # NoBlock /\ currentBlock'.number # NoBlock)
           => hexToInt(currentBlock'.number) >= hexToInt(currentBlock.number)
    ]_vars

----------------------------------------------------------------------------
(* C40 *)

\* what a re-check that fetched hash does to the cached block, as stated
RecheckAsStated(hash) ==
  IF hash = currentBlock.hash
  THEN effects'.emits = << >> /\ currentBlock' = currentBlock
  ELSE IF hash = NoHash
  THEN /\ Len(effects'.emits) = 1 /\ effects'.emits[1].ev = "reset"
       /\ currentBlock' = EmptyBlock
  ELSE /\ Len(effects'.emits) = 1 /\ effects'.emits[1].ev = "reset"
       /\ currentBlock' = [currentBlock EXCEPT !.hash = hash]

\* C40: a re-check of the cached block sends no request and changes nothing
\* when the cache has no number or no hash; otherwise it requests the hash of
\* the cached number, and when the hash arrives an equal hash emits nothing
\* and keeps the cache, another hash emits one 'reset' and replaces the
\* cached hash, and no hash emits one 'reset' and empties the cache.
C40_RecheckComparesHash ==
  [][ /\ (ChainLoopWake /\ isRunning)
           => /\ currentBlock' = currentBlock /\ effects'.emits = << >>
              /\ loops'[checkCurrentBlock(ChainCur)] = 1
              /\ ~Complete(currentBlock) => loops' = loops
      /\ \A l \in ChainLoopStates : \A hash \in FetchedHashes :
           ChainLoopResolve(l, hash)
             => (Complete(currentBlock) /\ RecheckAsStated(hash)) ]_vars

====
